---- MODULE Spec2Model ----
(***************************************************************************)
(* Offline-resilient delivery pipeline of the AERIS ESP32 firmware         *)
(* (src/aeris_firmware_v2.ino): the PSRAM ring buffer rb / rb_head /       *)
(* rb_tail, flushBufferedReadings and the sampling branch of loop().       *)
(*                                                                         *)
(* Two specifications share the state:                                     *)
(*   SpecRB  drives rbPush / rbPop directly, in any order, on a buffer     *)
(*           set up by rbInit (the ring buffer as a data structure);       *)
(*   Spec    is the firmware: setup() followed by loop() run for ever,     *)
(*           with the Wi-Fi link changing at any moment and every HTTP     *)
(*           request ending with any status code.                          *)
(***************************************************************************)
EXTENDS Integers, Sequences, FiniteSets, TLC

VARIABLES
    rb,                    \* the slots of the circular buffer (rb[0..rb_cap-1])
    rb_alloc,              \* rb != nullptr
    rb_cap,
    rb_head,               \* next write
    rb_tail,               \* next read
    rb_overwrite_on_full,
    wifi,                  \* WiFi.status() == WL_CONNECTED
    bme_ok,
    clock,                 \* wall clock read by iso8601_utc_ms()
    pc,                    \* position of the control loop
    max_to_flush,          \* flushBufferedReadings: parameter
    flushed,               \* flushBufferedReadings: local counter
    ret,                   \* where the running flushBufferedReadings returns to
    cur,                   \* loop(): the sampled t, h, p, ts
    oks,                   \* loop(): ok1, ok2, ok3 so far
    code_out,              \* httpPostJson: status code of the last request
    passStart,             \* history: backlog when the running drain pass began
    attempted,             \* history: records sent by the running drain pass
    sampleStart,           \* history: backlog when the last sampling began
    ev,                    \* history: the last step taken
    ledger,                \* history: the records stored and not yet delivered
                           \*   or evicted (an unbounded-index FIFO account)
    evictions,             \* history: number of records evicted so far
    attemptTs,             \* history: measured_at of the last request; in order so far
    tickOffline,           \* history: the link has been down since loop() began
    tickStart,             \* history: the buffer when that loop() began
    hist_in,               \* SpecRB history: records offered to rbPush
    hist_out,              \* SpecRB history: results of the rbPop calls
    prev,                  \* SpecRB history: the buffer before the last call
    mixed                  \* SpecRB history: an rbPush followed an rbPop

vars == <<rb, rb_alloc, rb_cap, rb_head, rb_tail, rb_overwrite_on_full, wifi,
          bme_ok, clock, pc, max_to_flush, flushed, ret, cur, oks, code_out,
          passStart, attempted, sampleStart, ev, ledger, evictions,
          attemptTs, tickOffline, tickStart, hist_in, hist_out, prev, mixed>>

bufVars == <<rb, rb_alloc, rb_cap, rb_head, rb_tail, rb_overwrite_on_full>>
loopVars == <<wifi, bme_ok, clock, pc, max_to_flush, flushed, ret, cur, oks,
              code_out, passStart, attempted, sampleStart>>
histRBVars == <<hist_in, hist_out, prev, mixed>>
ledgerVars == <<ledger, evictions>>
tickVars == <<tickOffline, tickStart>>

(***************************************************************************)
(* Bounds.  The firmware is built with RB_CAPACITY 1024, drain budgets 15  *)
(* and 20; the model keeps their order (a triple fits, the per-tick budget *)
(* is smaller than the quick-flush budget and than the buffer) on a small  *)
(* scale.                                                                  *)
(***************************************************************************)
RB_CAPACITY == 5

TickBudget == 2

QuickBudget == 3

MaxClock == 3

\* SpecRB: calls of rbPush / rbPop in one run (enough to fill the buffer,
\* overflow it and empty it again).
MaxPush == RB_CAPACITY + 1

MaxPop == RB_CAPACITY

(***************************************************************************)
(* Data.                                                                   *)
(***************************************************************************)
SENSOR_TEMP == "temperature_c"
SENSOR_HUM == "humidity"
SENSOR_PRES == "pressure_hpa"

SensorTypes == {SENSOR_TEMP, SENSOR_HUM, SENSOR_PRES}

\* Sensor values (floats in the firmware): two temperatures stand for all
\* readings that differ, one humidity and one pressure for the rest.
Values == {20, 21}

Hums == {40}

Press == {1013}

\* struct Reading.  sensor_type (at most 12 characters) and measured_at (24
\* characters) are shorter than their 32-byte fields, so strncpy and
\* toCharArray store them whole.
Reading(st, v, ts) == [sensor_type |-> st, value |-> v, measured_at |-> ts]

\* A slot of the malloc'ed array that was never written.
Uninit == [sensor_type |-> "?", value |-> 0, measured_at |-> 0]

\* No record: the result of an rbPop that returned false.
None == [sensor_type |-> "none", value |-> 0, measured_at |-> 0]

\* HTTP status codes of HTTPClient::POST: 2xx, 409, other 4xx, 5xx, and the
\* library's negative codes (-1 stands for them, and is also what
\* httpPostJson yields when begin() fails); offline it yields -2.
Codes == {200, 409, 401, 422, 500, -1}

CODE_OFFLINE == -2

(***************************************************************************)
(* The ring buffer.  A buffer state is a record                            *)
(*   [slots, head, tail]                                                   *)
(* so that the functions below can be composed as the code calls them.     *)
(***************************************************************************)
RB == [slots |-> rb, head |-> rb_head, tail |-> rb_tail]

\* rbInit: the state after a successful / failed allocation.
rbInit_ok(capacity) ==
    [slots |-> [i \in 0..(capacity - 1) |-> Uninit], head |-> 0, tail |-> 0]

rbInit_fail == [slots |-> <<>>, head |-> 0, tail |-> 0]

rbEmpty(s) == s.head = s.tail

rbFull(s) == ((s.head + 1) % rb_cap) = s.tail

\* lines 84-91: write at head, advance head (first without the modulo)
rbWrite_nomod(s, r) ==
    [s EXCEPT !.slots = [s.slots EXCEPT ![s.head] = r],
              !.head = s.head + 1]

rbWrite(s, r) ==
    [s EXCEPT !.slots = [s.slots EXCEPT ![s.head] = r],
              !.head = (s.head + 1) % rb_cap]

\* rbPush, lines 71-92.  Two faulty variants come first: one overwrites the
\* newest record instead of dropping the oldest, one ignores the policy flag.
rbPush_keep_oldest(s, r) ==
    IF ~rb_alloc THEN s
    ELSE IF rbFull(s)
         THEN IF rb_overwrite_on_full
              THEN rbWrite([s EXCEPT !.head = (s.head + rb_cap - 1) % rb_cap], r)
              ELSE s
         ELSE rbWrite(s, r)

rbPush_always(s, r) ==
    IF ~rb_alloc THEN s
    ELSE IF rbFull(s)
         THEN rbWrite([s EXCEPT !.tail = (s.tail + 1) % rb_cap], r)
         ELSE rbWrite(s, r)

\* Without the null check of line 72 the call goes on with rb_cap = 0; of
\* what may follow, the variant keeps the advance of rb_head.
rbPush_nonull(s, r) ==
    IF ~rb_alloc THEN [s EXCEPT !.head = s.head + 1]
    ELSE IF rbFull(s)
         THEN IF rb_overwrite_on_full
              THEN rbWrite([s EXCEPT !.tail = (s.tail + 1) % rb_cap], r)
              ELSE s
         ELSE rbWrite(s, r)

rbPush(s, r) ==
    IF ~rb_alloc THEN s
    ELSE IF rbFull(s)
         THEN IF rb_overwrite_on_full
              THEN rbWrite([s EXCEPT !.tail = (s.tail + 1) % rb_cap], r)
              ELSE s
         ELSE rbWrite(s, r)

\* rbPop: [ok, out, s] - the return value, the record copied out, the buffer
rbPop(s) ==
    IF ~rb_alloc \/ rbEmpty(s)
    THEN [ok |-> FALSE, out |-> None, s |-> s]
    ELSE [ok |-> TRUE, out |-> s.slots[s.tail],
          s |-> [s EXCEPT !.tail = (s.tail + 1) % rb_cap]]

\* rbSize, lines 101-104 (first without the wrapped branch)
rbSize_raw(s) == s.head - s.tail

\* (and with the number of usable places in the wrapped branch)
rbSize_usable(s) ==
    IF s.head >= s.tail THEN s.head - s.tail
    ELSE (rb_cap - 1) - (s.tail - s.head)

rbSize(s) ==
    IF s.head >= s.tail THEN s.head - s.tail
    ELSE rb_cap - (s.tail - s.head)

\* The backlog: the records successive rbPop calls return, in order (the
\* buffer the pop leaves is bound as a value, so that it is computed once).
RECURSIVE Backlog(_)
Backlog(s) ==
    LET p == rbPop(s) IN
      IF p.ok THEN <<p.out>> \o [t \in {p.s} |-> Backlog(t)][p.s] ELSE <<>>

(***************************************************************************)
(* SpecRB: rbPush and rbPop called in any order on a buffer that rbInit    *)
(* allocated, under either overwrite policy.                               *)
(***************************************************************************)
LoopIdle ==
    /\ wifi = FALSE /\ bme_ok = FALSE /\ clock = 0 /\ pc = "api"
    /\ max_to_flush = 0 /\ flushed = 0 /\ ret = "api"
    /\ cur = None /\ oks = <<>> /\ code_out = 0
    /\ passStart = <<>> /\ attempted = <<>> /\ sampleStart = <<>>

InitRB ==
    /\ rb_alloc = TRUE
    /\ rb_cap = RB_CAPACITY
    /\ rb = rbInit_ok(RB_CAPACITY).slots
    /\ rb_head = 0
    /\ rb_tail = 0
    /\ rb_overwrite_on_full \in BOOLEAN
    /\ LoopIdle
    /\ ev = "init"
    /\ hist_in = <<>> /\ hist_out = <<>> /\ mixed = FALSE
    /\ prev = RB
    /\ ledger = <<>> /\ evictions = 0
    /\ attemptTs = [last |-> 0, ordered |-> TRUE]
    /\ tickOffline = FALSE /\ tickStart = rbInit_fail

SetRB(s) ==
    /\ rb' = s.slots
    /\ rb_head' = s.head
    /\ rb_tail' = s.tail
    /\ UNCHANGED <<rb_alloc, rb_cap, rb_overwrite_on_full>>

\* The k-th record offered carries k as its timestamp, so all are distinct;
\* the sensor types follow each other as in loop().
SensorOf(k) ==
    IF k % 3 = 1 THEN SENSOR_TEMP ELSE IF k % 3 = 2 THEN SENSOR_HUM ELSE SENSOR_PRES

ApiPush(v) ==
    /\ pc = "api"
    /\ Len(hist_in) < MaxPush
    /\ LET r == Reading(SensorOf(Len(hist_in) + 1), v, Len(hist_in) + 1) IN
         /\ SetRB(rbPush(RB, r))
         /\ hist_in' = Append(hist_in, r)
    /\ mixed' = (mixed \/ hist_out # <<>>)
    /\ ev' = "push"
    /\ prev' = RB
    /\ UNCHANGED <<hist_out>>
    /\ UNCHANGED loopVars
    /\ UNCHANGED <<ledgerVars, attemptTs, tickVars>>

ApiPop ==
    /\ pc = "api"
    /\ Len(hist_out) < MaxPop
    /\ LET p == rbPop(RB) IN
         /\ SetRB(p.s)
         /\ hist_out' = Append(hist_out, p.out)
    /\ ev' = "pop"
    /\ prev' = RB
    /\ UNCHANGED <<hist_in, mixed>>
    /\ UNCHANGED loopVars
    /\ UNCHANGED <<ledgerVars, attemptTs, tickVars>>

NextRB ==
    \/ \E v \in Values : ApiPush(v)
    \/ ApiPop

SpecRB == InitRB /\ [][NextRB]_vars

(***************************************************************************)
(* Spec: the firmware.  setup() leaves the buffer allocated or not, the    *)
(* sensor found or not, the link up or down; then loop() runs for ever.    *)
(***************************************************************************)
\* httpPostJson, line 176: the return value for a status code (first
\* without the 409 clause)
httpOk_no409(c) == c >= 200 /\ c < 300

httpOk(c) == (c >= 200 /\ c < 300) \/ c = 409

\* httpPostJson, lines 151-155 and 170: the status code of one request; when
\* the link is down no request is made and the code is -2.
HttpCode(code) ==
    /\ wifi => code \in Codes
    /\ ~wifi => code = CODE_OFFLINE

\* flushBufferedReadings, line 223: put the record just popped back (first
\* without the wrap from 0 to rb_cap - 1)
rbUnpop_nowrap(s) == [s EXCEPT !.tail = IF s.tail = 0 THEN 0 ELSE s.tail - 1]

rbUnpop(s) == [s EXCEPT !.tail = IF s.tail = 0 THEN rb_cap - 1 ELSE s.tail - 1]

\* loop(), lines 293-295 and 306-308: the three pushes of one sample (first
\* in a wrong order)
PushTriple_reordered(s, c) ==
    rbPush(rbPush(rbPush(s, Reading(SENSOR_HUM, c.h, c.ts)),
                  Reading(SENSOR_TEMP, c.t, c.ts)),
           Reading(SENSOR_PRES, c.p, c.ts))

PushTriple(s, c) ==
    rbPush(rbPush(rbPush(s, Reading(SENSOR_TEMP, c.t, c.ts)),
                  Reading(SENSOR_HUM, c.h, c.ts)),
           Reading(SENSOR_PRES, c.p, c.ts))

Triple(c) ==
    << Reading(SENSOR_TEMP, c.t, c.ts), Reading(SENSOR_HUM, c.h, c.ts),
       Reading(SENSOR_PRES, c.p, c.ts) >>

NoSample == [t |-> 0, h |-> 0, p |-> 0, ts |-> 0]

(***************************************************************************)
(* The account of the backlog kept beside the firmware: a FIFO of at most  *)
(* rb_cap - 1 records [q, n] that a record enters when it is stored and    *)
(* leaves only when it is delivered (2xx, 409) or evicted by a push into   *)
(* the full buffer under rb_overwrite_on_full; n counts the evictions.     *)
(* It is written from the rules the buffer is meant to follow, with no use *)
(* of rb, rb_head or rb_tail.                                              *)
(***************************************************************************)
Account == [q |-> ledger, n |-> evictions]

AccountPush(a, r) ==
    IF ~rb_alloc THEN a
    ELSE IF Len(a.q) < rb_cap - 1 THEN [a EXCEPT !.q = Append(a.q, r)]
    ELSE IF rb_overwrite_on_full
         THEN [q |-> Append(Tail(a.q), r), n |-> a.n + 1]
         ELSE a

AccountTriple(a, c) ==
    AccountPush(AccountPush(AccountPush(a, Triple(c)[1]), Triple(c)[2]),
                Triple(c)[3])

DeliveredCodes == {c \in Codes : (c >= 200 /\ c < 300) \/ c = 409}

AccountDrain(a, code) ==
    IF code \in DeliveredCodes THEN [a EXCEPT !.q = Tail(a.q)] ELSE a

SetAccount(a) == ledger' = a.q /\ evictions' = a.n

\* The timestamp of the last request that reached the transport, and whether
\* every request so far was measured no earlier than the one before it, after
\* a send of a record measured at ts ended with `code` (-2: no request made).
Requested(code, ts) ==
    IF code = CODE_OFFLINE THEN attemptTs
    ELSE [last |-> ts, ordered |-> attemptTs.ordered /\ attemptTs.last <= ts]

Init ==
    /\ rb_alloc \in BOOLEAN
    /\ rb_cap = IF rb_alloc THEN RB_CAPACITY ELSE 0
    /\ rb = IF rb_alloc THEN rbInit_ok(RB_CAPACITY).slots ELSE rbInit_fail.slots
    /\ rb_head = 0
    /\ rb_tail = 0
    /\ rb_overwrite_on_full \in BOOLEAN
    /\ wifi \in BOOLEAN
    /\ bme_ok \in BOOLEAN
    /\ clock = 0
    /\ pc = "loop"
    /\ max_to_flush = 0 /\ flushed = 0 /\ ret = "loop"
    /\ cur = NoSample /\ oks = <<>> /\ code_out = 0
    /\ passStart = <<>> /\ attempted = <<>> /\ sampleStart = <<>>
    /\ ev = "init"
    /\ hist_in = <<>> /\ hist_out = <<>> /\ mixed = FALSE
    /\ prev = RB
    /\ ledger = <<>> /\ evictions = 0
    /\ attemptTs = [last |-> 0, ordered |-> TRUE]
    /\ tickOffline = FALSE /\ tickStart = rbInit_fail

\* The link goes up or down at any moment.
WiFiChange ==
    /\ pc # "api"
    /\ wifi' = ~wifi
    /\ UNCHANGED <<bme_ok, clock, pc, max_to_flush, flushed, ret, cur, oks,
                   code_out, passStart, attempted, sampleStart, ev>>
    /\ UNCHANGED bufVars
    /\ tickOffline' = FALSE
    /\ tickStart' = rbInit_fail
    /\ UNCHANGED attemptTs
    /\ UNCHANGED ledgerVars
    /\ UNCHANGED histRBVars

\* loop(), lines 265-270: reconnect if needed, then call flushBufferedReadings(15)
LoopBegin ==
    /\ pc = "loop"
    /\ IF wifi THEN wifi' = wifi ELSE wifi' \in BOOLEAN
    /\ pc' = "flush_entry"
    /\ max_to_flush' = TickBudget
    /\ ret' = "sample"
    /\ ev' = "loop_begin"
    /\ UNCHANGED <<bme_ok, clock, code_out>>
    \* the locals of loop() and of flushBufferedReadings start afresh, and
    \* with them the history of the last pass and sample
    /\ flushed' = 0 /\ cur' = NoSample /\ oks' = <<>>
    /\ passStart' = <<>> /\ attempted' = <<>> /\ sampleStart' = <<>>
    /\ UNCHANGED bufVars
    /\ tickOffline' = ~wifi'
    /\ tickStart' = IF wifi' THEN rbInit_fail ELSE RB
    /\ UNCHANGED attemptTs
    /\ UNCHANGED ledgerVars
    /\ UNCHANGED histRBVars

\* flushBufferedReadings, lines 217-219 (first with the test of line 217
\* inverted)
FlushEnter_inverted ==
    /\ pc = "flush_entry"
    /\ pc' = IF ~wifi THEN "flush" ELSE ret
    /\ flushed' = 0
    /\ passStart' = Backlog(RB)
    /\ attempted' = <<>>
    /\ ev' = IF ~wifi THEN "flush_enter" ELSE "flush_offline"
    /\ UNCHANGED <<wifi, bme_ok, clock, max_to_flush, ret, cur, oks, code_out,
                   sampleStart>>
    /\ UNCHANGED bufVars
    /\ UNCHANGED <<attemptTs, tickVars>>
    /\ UNCHANGED ledgerVars
    /\ UNCHANGED histRBVars

FlushEnter ==
    /\ pc = "flush_entry"
    /\ pc' = IF wifi THEN "flush" ELSE ret
    /\ flushed' = 0
    /\ passStart' = Backlog(RB)
    /\ attempted' = <<>>
    /\ ev' = IF wifi THEN "flush_enter" ELSE "flush_offline"
    /\ UNCHANGED <<wifi, bme_ok, clock, max_to_flush, ret, cur, oks, code_out,
                   sampleStart>>
    /\ UNCHANGED bufVars
    /\ UNCHANGED <<attemptTs, tickVars>>
    /\ UNCHANGED ledgerVars
    /\ UNCHANGED histRBVars

\* flushBufferedReadings, line 220: flushed < max_to_flush (first with <=,
\* then with the comparison turned round)
BudgetLeft_offbyone == flushed <= max_to_flush

BudgetLeft_spent == max_to_flush < flushed

BudgetLeft == flushed < max_to_flush

\* flushBufferedReadings, lines 220-228: with a send that succeeds but is
\* not counted (line 227 missing)
DrainStep_nocount(code) ==
    LET p == rbPop(RB) IN
      IF httpOk(code)
      THEN [s |-> p.s, flushed |-> flushed, pc |-> "flush", ev |-> "drain_ok"]
      ELSE [s |-> rbUnpop(p.s), flushed |-> flushed, pc |-> ret,
            ev |-> "drain_fail"]

\* flushBufferedReadings, lines 220-228: what one iteration of the while loop
\* does when sendReading ends with status `code`: the buffer, the counter,
\* where control goes
DrainStep(code) ==
    LET p == rbPop(RB) IN
      IF httpOk(code)
      THEN [s |-> p.s, flushed |-> flushed + 1, pc |-> "flush", ev |-> "drain_ok"]
      ELSE [s |-> rbUnpop(p.s), flushed |-> flushed, pc |-> ret,
            ev |-> "drain_fail"]

FlushIter(code) ==
    /\ pc = "flush"
    /\ BudgetLeft
    /\ rbPop(RB).ok
    /\ HttpCode(code)
    /\ attempted' = Append(attempted, rbPop(RB).out)
    /\ SetRB(DrainStep(code).s)
    /\ flushed' = DrainStep(code).flushed
    /\ pc' = DrainStep(code).pc
    /\ ev' = DrainStep(code).ev
    /\ code_out' = code
    /\ SetAccount(AccountDrain(Account, code))
    /\ attemptTs' = Requested(code, rbPop(RB).out.measured_at)
    /\ UNCHANGED tickVars
    /\ UNCHANGED <<wifi, bme_ok, clock, max_to_flush, ret, cur, oks, passStart,
                   sampleStart>>
    /\ UNCHANGED histRBVars

\* flushBufferedReadings, line 220 false and lines 229-233
FlushExit ==
    /\ pc = "flush"
    /\ ~(BudgetLeft /\ rbPop(RB).ok)
    /\ pc' = ret
    /\ ev' = "flush_exit"
    /\ UNCHANGED <<wifi, bme_ok, clock, max_to_flush, flushed, ret, cur, oks,
                   code_out, passStart, attempted, sampleStart>>
    /\ UNCHANGED bufVars
    /\ UNCHANGED <<attemptTs, tickVars>>
    /\ UNCHANGED ledgerVars
    /\ UNCHANGED histRBVars

\* loop(), lines 272-276: the interval has not elapsed, or there is no sensor
SkipSample ==
    /\ pc = "sample"
    /\ pc' = "loop"
    /\ ev' = "skip_sample"
    /\ UNCHANGED <<wifi, bme_ok, clock, max_to_flush, flushed, ret, cur, oks,
                   code_out, passStart, attempted, sampleStart>>
    /\ UNCHANGED bufVars
    /\ UNCHANGED <<attemptTs, tickVars>>
    /\ UNCHANGED ledgerVars
    /\ UNCHANGED histRBVars

\* loop(), line 291: buffer the sample rather than send it live (first
\* without the look at the backlog)
ShouldBuffer_offline(online, haveBacklog) == ~online

ShouldBuffer(online, haveBacklog) == ~online \/ haveBacklog

\* loop(), lines 273-298: a sample is taken; it is buffered (and a quick
\* flush started when online) or the live sends begin
Sample(t, h, p) ==
    /\ pc = "sample"
    /\ bme_ok
    /\ clock < MaxClock
    /\ clock' = clock + 1
    /\ cur' = [t |-> t, h |-> h, p |-> p, ts |-> clock + 1]
    /\ sampleStart' = Backlog(RB)
    /\ oks' = <<>>
    /\ LET haveBacklog == ~rbEmpty(RB)
           online == wifi
       IN IF ShouldBuffer(online, haveBacklog)
          THEN /\ SetRB(PushTriple(RB, cur'))
               /\ SetAccount(AccountTriple(Account, cur'))
               /\ ev' = "buffered"
               /\ IF online
                  THEN pc' = "flush_entry" /\ max_to_flush' = QuickBudget
                       /\ ret' = "loop"
                  ELSE pc' = "loop" /\ UNCHANGED <<max_to_flush, ret>>
          ELSE /\ pc' = "live"
               /\ ev' = "live_begin"
               /\ UNCHANGED <<max_to_flush, ret>>
               /\ UNCHANGED bufVars
               /\ UNCHANGED ledgerVars
    /\ UNCHANGED <<wifi, bme_ok, flushed, code_out, passStart, attempted>>
    /\ UNCHANGED <<attemptTs, tickVars>>
    /\ UNCHANGED histRBVars

\* loop(), line 304: the test that sends the three readings to the buffer
\* (first looking at the last send only)
LiveFailed_last(o) == ~o[3]

LiveFailed(o) == ~(o[1] /\ o[2] /\ o[3])

\* loop(), lines 301-310: what one live sendReadingJson ending with status
\* `code` does; after the third, the fallback pushes if any of the three failed
LiveStep(code) ==
    LET o == Append(oks, httpOk(code)) IN
      IF Len(o) < 3
      THEN [s |-> RB, oks |-> o, pc |-> "live", ev |-> "live_sent"]
      ELSE IF LiveFailed(o)
           THEN [s |-> PushTriple(RB, cur), oks |-> o, pc |-> "loop",
                 ev |-> "live_fallback"]
           ELSE [s |-> RB, oks |-> o, pc |-> "loop", ev |-> "live_ok"]

LiveSend(code) ==
    /\ pc = "live"
    /\ HttpCode(code)
    /\ SetRB(LiveStep(code).s)
    /\ oks' = LiveStep(code).oks
    /\ pc' = LiveStep(code).pc
    /\ ev' = LiveStep(code).ev
    /\ code_out' = code
    /\ attemptTs' = Requested(code, cur.ts)
    /\ UNCHANGED tickVars
    /\ IF LiveStep(code).ev = "live_fallback"
       THEN SetAccount(AccountTriple(Account, cur))
       ELSE UNCHANGED ledgerVars
    /\ UNCHANGED <<wifi, bme_ok, clock, max_to_flush, flushed, ret, cur,
                   passStart, attempted, sampleStart>>
    /\ UNCHANGED histRBVars

Next ==
    \/ WiFiChange
    \/ LoopBegin
    \/ FlushEnter
    \/ \E code \in Codes \cup {CODE_OFFLINE} : FlushIter(code)
    \/ FlushExit
    \/ SkipSample
    \/ \E t \in Values, h \in Hums, p \in Press : Sample(t, h, p)
    \/ \E code \in Codes \cup {CODE_OFFLINE} : LiveSend(code)

Spec == Init /\ [][Next]_vars

\* loop(), lines 264-314: the runtime calls loop() again and again, and every
\* call in it returns, so the firmware always takes its next step; the link
\* is the environment's and may stay as it is for ever.
LoopStep ==
    \/ LoopBegin
    \/ FlushEnter
    \/ \E code \in Codes \cup {CODE_OFFLINE} : FlushIter(code)
    \/ FlushExit
    \/ SkipSample
    \/ \E t \in Values, h \in Hums, p \in Press : Sample(t, h, p)
    \/ \E code \in Codes \cup {CODE_OFFLINE} : LiveSend(code)

\* line 48: the firmware as built evicts when full (nothing assigns
\* rb_overwrite_on_full)
FairInit == Init /\ rb_overwrite_on_full

FairSpec == FairInit /\ [][Next]_vars /\ WF_vars(LoopStep)

(***************************************************************************)
(* Properties.                                                             *)
(***************************************************************************)
Last(q) == q[Len(q)]

\* The last n elements of q (all of q when it is shorter).
Suffix(q, n) == SubSeq(q, IF Len(q) > n THEN Len(q) - n + 1 ELSE 1, Len(q))

\* C1. Capacity bound: in every state the firmware reaches (pushes, pops,
\* drain passes, sampling, any link and transport outcome, either overwrite
\* policy, buffer allocated or not), 0 <= rbSize() <= rb_cap.
C1_CapacityBound == 0 <= rbSize(RB) /\ rbSize(RB) <= rb_cap

\* The buffer is full and wrapped (head behind tail): the occupancy is at its
\* maximum and rbSize takes its second branch.
C1_Witness_FullWrapped ==
    /\ rb_alloc
    /\ rbFull(RB)
    /\ rb_head < rb_tail
    /\ ev = "buffered"

\* C2. FIFO ordering up to the capacity: after n pushes r1..rn into the empty
\* buffer, 1 <= n <= rb_cap, with no pop in between, the first k <= n pops
\* all succeed and return r1..rk.
C2_FifoUpToCapacity ==
    (/\ ~mixed
     /\ Len(hist_in) >= 1
     /\ Len(hist_in) <= rb_cap
     /\ Len(hist_out) <= Len(hist_in))
    => hist_out = SubSeq(hist_in, 1, Len(hist_out))

\* C3. Eviction scenario: with rb_overwrite_on_full, rb_cap + 1 pushes into
\* the empty buffer leave occupancy rb_cap, and the pops that follow return
\* records 2, 3, ..., rb_cap + 1 in order.
C3_EvictionScenario ==
    (/\ rb_overwrite_on_full
     /\ ~mixed
     /\ Len(hist_in) = rb_cap + 1)
    => /\ hist_out = <<>> => rbSize(RB) = rb_cap
       /\ Len(hist_out) <= rb_cap
            => hist_out = SubSeq(Tail(hist_in), 1, Len(hist_out))

\* C4. Eviction on full: a push into a full buffer under rb_overwrite_on_full
\* discards exactly the oldest record (the one rbPop would have returned),
\* appends the new record as the newest, keeps the others in order, and
\* leaves the occupancy unchanged.
C4_EvictOldest ==
    (ev = "push" /\ rbFull(prev) /\ rb_overwrite_on_full)
    => /\ Backlog(prev) # <<>>
       /\ Head(Backlog(prev)) = rbPop(prev).out
       /\ Backlog(RB) = Append(Tail(Backlog(prev)), Last(hist_in))
       /\ rbSize(RB) = rbSize(prev)

\* A push has just evicted the oldest record of a full buffer whose indices
\* had wrapped around.
C4_Witness_Evicted ==
    /\ ev = "push"
    /\ rbFull(prev)
    /\ rb_overwrite_on_full
    /\ rbSize(RB) = rb_cap - 1
    /\ Last(Backlog(RB)) = Last(hist_in)
    /\ rb_head < rb_tail
    /\ mixed

\* C5. Refusal on full: a push into a full buffer without
\* rb_overwrite_on_full changes nothing: rb_head, rb_tail, every slot and the
\* occupancy are as before, and the offered record is not stored.
C5_RefuseChangesNothing ==
    (ev = "push" /\ rbFull(prev) /\ ~rb_overwrite_on_full)
    => /\ rb = prev.slots
       /\ rb_head = prev.head
       /\ rb_tail = prev.tail
       /\ rbSize(RB) = rbSize(prev)
       /\ Backlog(RB) = Backlog(prev)
       /\ \A i \in DOMAIN rb : rb[i] # Last(hist_in)

\* A push has just been refused by a full buffer.
C5_Witness_Refused ==
    /\ ev = "push"
    /\ rbFull(prev)
    /\ ~rb_overwrite_on_full
    /\ rbFull(RB)
    /\ Len(hist_in) > Len(Backlog(RB)) + Len(hist_out)

\* Status codes by the outcome the transport adapter gives them.
TransientCodes == {c \in Codes : c >= 500 \/ c < 0} \cup {CODE_OFFLINE}

ClientErrorCodes == {c \in Codes : c >= 400 /\ c < 500 /\ c # 409}

IsDrainEv == ev \in {"drain_ok", "drain_fail"}

\* What is left of the pass's initial backlog once its first n records are gone.
Rest(n) == SubSeq(passStart, n + 1, Len(passStart))

\* C6. Drain rollback: when the N-th record popped by a drain pass fails with
\* a transient or offline outcome, the pass stops at once, that record is
\* again the next one rbPop returns, the records behind it are unchanged and
\* in order, none of them was sent, and the occupancy is the one before the
\* pass minus N - 1.
C6_DrainRollback ==
    (ev = "drain_fail" /\ code_out \in TransientCodes)
    => LET N == Len(attempted) IN
         /\ pc = ret
         /\ N = flushed + 1
         /\ attempted = SubSeq(passStart, 1, N)
         /\ rbPop(RB).ok /\ rbPop(RB).out = Last(attempted)
         /\ Backlog(RB) = Rest(N - 1)
         /\ rbSize(RB) = Len(passStart) - (N - 1)

\* The second record of a pass failed with a 5xx while others wait behind it,
\* and the rollback wrapped rb_tail from 0 back to rb_cap - 1.
C6_Witness_SecondFails ==
    /\ ev = "drain_fail"
    /\ code_out = 500
    /\ Len(attempted) = 2
    /\ Len(Backlog(RB)) >= 2
    /\ rb_tail = rb_cap - 1

\* C7. A non-retryable failure does not block the backlog: when a record
\* popped by a drain pass gets a ClientError (401, 422), it is discarded and
\* the pass goes on with the next record.
C7_ClientErrorDiscarded ==
    (IsDrainEv /\ code_out \in ClientErrorCodes)
    => /\ pc = "flush"
       /\ Backlog(RB) = Rest(Len(attempted))

\* C8. Idempotent backend response: wherever a record is being sent (drain
\* pass or live), the step taken on 409 is the step taken on 200: the same
\* buffer, counters, control position and event; a drained record that got
\* 409 is gone from the backlog and the pass continues; a live triple whose
\* last answer is 409 after two successes is not buffered.
C8_AlreadyExistsAsDelivered ==
    /\ (pc = "flush" /\ flushed < max_to_flush /\ rbPop(RB).ok)
         => DrainStep(409) = DrainStep(200)
    /\ pc = "live" => LiveStep(409) = LiveStep(200)
    /\ (IsDrainEv /\ code_out = 409)
         => /\ ev = "drain_ok"
            /\ pc = "flush"
            /\ Backlog(RB) = Rest(Len(attempted))
    /\ (ev \in {"live_ok", "live_fallback"} /\ code_out = 409
           /\ oks[1] /\ oks[2])
         => ev = "live_ok" /\ Backlog(RB) = sampleStart

\* A drained record was answered 409 and the pass goes on to the next one.
C8_Witness_Drained409 ==
    /\ ev = "drain_ok"
    /\ code_out = 409
    /\ pc = "flush"
    /\ Len(attempted) = 1
    /\ Backlog(RB) # <<>>

Room(q) == (rb_cap - 1) - Len(q)

AllOk == Len(oks) = 3 /\ oks[1] /\ oks[2] /\ oks[3]

\* C10 as stated. Live-send fallback: a sample taken online with an empty
\* backlog is sent live, all three readings; if any attempt fails the backlog
\* then holds the three readings in the order temperature, humidity,
\* pressure; if all succeed the backlog stays empty.
C10_LiveFallback_AsStated ==
    /\ ev \in {"live_begin", "live_sent"} => pc = "live" /\ Backlog(RB) = <<>>
    /\ ev \in {"live_ok", "live_fallback"} => Len(oks) = 3 /\ sampleStart = <<>>
    /\ ev = "live_ok" => AllOk /\ Backlog(RB) = <<>>
    /\ ev = "live_fallback" => ~AllOk /\ Backlog(RB) = Triple(cur)

\* C10, amended: the same, the fallback filling the backlog when the buffer
\* was allocated (after a failed rbInit the three pushes do nothing).
C10_LiveFallback ==
    /\ ev \in {"live_begin", "live_sent"} => pc = "live" /\ Backlog(RB) = <<>>
    /\ ev \in {"live_ok", "live_fallback"} => Len(oks) = 3 /\ sampleStart = <<>>
    /\ ev = "live_ok" => AllOk /\ Backlog(RB) = <<>>
    /\ ev = "live_fallback"
         => /\ ~AllOk
            /\ Backlog(RB) = (IF rb_alloc THEN Triple(cur) ELSE <<>>)

\* The first two live sends succeeded, the third did not, and all three
\* readings are in the backlog.
C10_Witness_ThirdFails ==
    /\ ev = "live_fallback"
    /\ oks = <<TRUE, TRUE, FALSE>>
    /\ Backlog(RB) = Triple(cur)

\* C11. Records leave the backlog only by successful delivery or eviction:
\* in every state the backlog is exactly the account - the records stored,
\* in order, less those delivered (2xx, 409) by a drain pass and those
\* evicted by a push into the full buffer; no failed send, rollback, offline
\* tick or sampling removes or alters a stored record.
C11_OnlyDeliveredOrEvicted == Backlog(RB) = ledger

\* A send failed and was rolled back after earlier evictions; the record and
\* the ones behind it are still there.
C11_Witness_KeptAfterRollback ==
    /\ ev = "drain_fail"
    /\ evictions > 0
    /\ Len(ledger) >= 2
    /\ Head(ledger) = Last(attempted)
    /\ rb_tail = rb_cap - 1

\* C12. Eviction observability: once records have been evicted, the pipeline
\* state (rb_cap, rb_head, rb_tail; the firmware's other number, lastSample,
\* is a time) holds a counter equal to the number of records evicted so far.
C12_EvictionCounter ==
    evictions > 0 => \E counter \in {rb_cap, rb_head, rb_tail} : counter = evictions

Min(a, b) == IF a < b THEN a ELSE b

Max(a, b) == IF a > b THEN a ELSE b

\* C13. Drain progress: a drain pass with budget B that runs to its end with
\* every send successful, on a backlog of n records, has sent the Min(n, B)
\* oldest records in order and leaves the others: occupancy Max(0, n - B).
C13_DrainProgress ==
    ev = "flush_exit"
    => LET n == Len(passStart)
           B == max_to_flush
       IN /\ flushed = Min(n, B)
          /\ attempted = SubSeq(passStart, 1, Min(n, B))
          /\ Backlog(RB) = Rest(Min(n, B))
          /\ rbSize(RB) = Max(0, n - B)

\* A pass ended on its budget and left part of the backlog.
C13_Witness_BudgetBinds ==
    /\ ev = "flush_exit"
    /\ Len(passStart) > max_to_flush
    /\ rbSize(RB) = Len(passStart) - max_to_flush
    /\ flushed = max_to_flush

\* C14. Degraded mode: after a failed rbInit the buffer stays as rbInit left
\* it for the whole run (rb_cap 0, no slot, rb_head = rb_tail = 0), rbSize()
\* is 0, rbEmpty() holds, rbPush and rbPop do nothing, no drain pass sends
\* anything, and sampling goes on: live when the link is up, dropped when
\* it is down.
C14_DegradedMode ==
    ~rb_alloc
    => /\ RB = rbInit_fail
       /\ rb_cap = 0
       /\ rbSize(RB) = 0
       /\ rbEmpty(RB)
       /\ rbPush(RB, Triple(cur)[1]) = RB
       /\ ~rbPop(RB).ok /\ rbPop(RB).s = RB
       /\ attempted = <<>> /\ passStart = <<>>
       /\ pc = "flush" => ENABLED FlushExit
       /\ (pc = "sample" /\ bme_ok /\ clock < MaxClock)
            => \A t \in Values, h \in Hums, p \in Press : ENABLED Sample(t, h, p)
       /\ ev = "buffered" => pc = "loop"

\* Without a buffer the firmware has sampled twice and sent the second
\* sample live.
C14_Witness_DegradedLive ==
    /\ ~rb_alloc
    /\ clock = 2
    /\ ev = "live_ok"

InRange(s) == s.head \in 0..(rb_cap - 1) /\ s.tail \in 0..(rb_cap - 1)

\* C15. Index bounds: with the buffer allocated, rb_head and rb_tail are in
\* [0, rb_cap) in every state, the slots are rb[0..rb_cap-1], and they still
\* are after each of the next calls the firmware can make: one, two or three
\* rbPush, an rbPop, and an rbPop undone by the rollback.
C15_IndexBounds ==
    rb_alloc
    => /\ InRange(RB)
       /\ DOMAIN rb = 0..(rb_cap - 1)
       /\ InRange(rbPush(RB, Uninit))
       /\ InRange(rbPush(rbPush(RB, Uninit), Uninit))
       /\ InRange(PushTriple(RB, cur))
       /\ DOMAIN PushTriple(RB, cur).slots = 0..(rb_cap - 1)
       /\ InRange(rbPop(RB).s)
       /\ rbPop(RB).ok => InRange(rbUnpop(rbPop(RB).s))

\* A failed send was rolled back from rb_tail = 0 to rb_cap - 1.
C15_Witness_RollbackWrapped ==
    /\ rb_alloc
    /\ ev = "drain_fail"
    /\ rb_tail = rb_cap - 1
    /\ rb_head < rb_tail

InPass == pc = "flush" \/ ev \in {"drain_ok", "drain_fail", "flush_exit"}

\* C18. Drain budget: during and after a drain pass with budget B, at most B
\* records were sent and at most B removed; the records removed are those
\* sent successfully, and a failed send removes nothing and ends the pass.
C18_DrainBudget ==
    InPass
    => /\ Len(attempted) <= max_to_flush
       /\ flushed <= max_to_flush
       /\ Len(passStart) - Len(Backlog(RB)) = flushed
       /\ Backlog(RB) = Rest(flushed)
       /\ ev = "drain_fail" => pc = ret /\ Len(attempted) = flushed + 1
       /\ ev # "drain_fail" => Len(attempted) = flushed

\* The budget is used up by successful sends while records remain.
C18_Witness_BudgetReached ==
    /\ pc = "flush"
    /\ ev = "drain_ok"
    /\ Len(attempted) = max_to_flush
    /\ Backlog(RB) # <<>>

\* C19. Occupancy reporting: with the buffer allocated, rbSize() is the
\* number of records successive rbPop calls return, rbEmpty() holds exactly
\* when that number is 0, and rbFull() and rbEmpty() never hold together.
C19_OccupancyUnambiguous ==
    rb_alloc
    => /\ rbSize(RB) = Len(Backlog(RB))
       /\ rbEmpty(RB) <=> Len(Backlog(RB)) = 0
       /\ ~(rbFull(RB) /\ rbEmpty(RB))
       /\ rbFull(RB) <=> Len(Backlog(RB)) = rb_cap - 1

\* A wrapped, partly filled buffer after a pass that removed records.
C19_Witness_WrappedPartial ==
    /\ rb_alloc
    /\ rb_head < rb_tail
    /\ rbSize(RB) = 2
    /\ ev = "drain_ok"

Sorted(q) == \A i \in 1..(Len(q) - 1) : q[i].measured_at <= q[i + 1].measured_at

\* C16. No reading races ahead of the backlog: every request that reaches
\* the transport carries a measured_at not older than the request before
\* it; the backlog is in timestamp order and holds nothing older than the
\* last request; live sends happen only with an empty backlog and are not
\* older than the last request.
C16_AttemptsInOrder ==
    /\ attemptTs.ordered
    /\ Sorted(Backlog(RB))
    /\ \A i \in 1..Len(Backlog(RB)) : attemptTs.last <= Backlog(RB)[i].measured_at
    /\ pc = "live" => Backlog(RB) = <<>> /\ attemptTs.last <= cur.ts

\* A drain pass has sent a record of a later sample than the request before.
C16_Witness_LaterRecordSent ==
    /\ IsDrainEv
    /\ code_out # CODE_OFFLINE
    /\ Len(attempted) >= 2
    /\ attempted[Len(attempted) - 1].measured_at < Last(attempted).measured_at
    /\ evictions > 0

\* C17. Offline short-circuit: in a run of loop() during which the link is
\* down, no send is made (no drain pass is entered, no live send begun), the
\* buffer stays as it was when loop() began, and the only change is the push
\* of the sampled triple.
C17_OfflineTick ==
    tickOffline
    => /\ ~wifi
       /\ ev \in {"loop_begin", "flush_offline", "skip_sample", "buffered"}
       /\ pc \notin {"flush", "live"}
       /\ ev # "buffered" => RB = tickStart
       /\ ev = "flush_offline" => attempted = <<>> /\ passStart = Backlog(tickStart)
       /\ ev = "buffered"
            => /\ pc = "loop"
               /\ RB = PushTriple(tickStart, cur)
               /\ Backlog(RB) =
                     AccountTriple([q |-> Backlog(tickStart), n |-> 0], cur).q

\* An offline loop() with a backlog took a sample and buffered it.
C17_Witness_OfflineBuffered ==
    /\ tickOffline
    /\ ev = "buffered"
    /\ Backlog(tickStart) # <<>>
    /\ Len(Backlog(RB)) > Len(Backlog(tickStart))

\* The link is up and the last send, if any, was answered Delivered or
\* AlreadyExists.
Delivering == wifi /\ (code_out = 0 \/ code_out \in DeliveredCodes)

====
